---- MODULE Spec2Model ----
(***************************************************************************)
(* Verification model of the Micetro Ansible collection:                   *)
(*   - plugins/module_utils/micetro.py : doapi, the API gateway            *)
(*   - plugins/inventory/inventory.py  : the dynamic inventory             *)
(*                                                                         *)
(* Python dicts are modelled as functions whose DOMAIN is the set of keys  *)
(* present.  Python values stored under "message" are records              *)
(* [type, val] so that a str and a decoded JSON object stay comparable.    *)
(***************************************************************************)
EXTENDS Integers, Sequences, FiniteSets, TLC

(***************************************************************************)
(* Bounds of the model                                                     *)
(***************************************************************************)
\* number of doapi invocations that may be in progress at the same time
\* longest string handed to _sanitize
MaxLen == 3

NCalls == 2
\* cap on the per-call request counter (the code itself has no such cap)
ReqCap == 7

\* number of address records the server hands out during one inventory pass
MaxRecords == 2

Calls == 1..NCalls

(***************************************************************************)
(* Python dict helpers                                                     *)
(***************************************************************************)
EmptyDict == <<>>

Put(d, k, v) == [x \in (DOMAIN d) \cup {k} |-> IF x = k THEN v ELSE d[x]]

HasKey(d, k) == k \in DOMAIN d

PyStr(s) == [type |-> "str", val |-> s]

PyDict(s) == [type |-> "dict", val |-> s]

Last(s) == s[Len(s)]

(***************************************************************************)
(* What the network and the server can answer to one open_url call         *)
(***************************************************************************)
\* response bodies (raw text as returned by resp.read())
BodyEmpty == ""
BodyNotJson == "<html>gateway</html>"
BodyBadUtf8 == "0xFF 0xFE"
BodyObject == "{'result': {}}"
BodyNoContentString == "'No Content'"
\* error envelopes sent with a 4xx/5xx status
BodyEnvelopeNotFound == "{'error': {'message': 'Object not found', 'code': 2049}}"
BodyEnvelopeDenied == "{'error': {'message': 'Access denied', 'code': 16544}}"

Bodies == {BodyEmpty, BodyNotJson, BodyBadUtf8, BodyObject, BodyNoContentString}

Envelopes == {BodyEnvelopeNotFound, BodyEnvelopeDenied}

ErrorBodies == Envelopes \cup {BodyNotJson, BodyObject}

SuccessCodes == {200, 201, 202, 204}

ErrorCodes == {404, 500}

\* the reason phrase the HTTP library attaches to a status code
ReasonOf(code) ==
    CASE code = 200 -> "OK"
      [] code = 201 -> "Created"
      [] code = 202 -> "Accepted"
      [] code = 204 -> "No Content"
      [] code = 404 -> "Not Found"
      [] code = 500 -> "Internal Server Error"

\* One outcome of open_url: a response object, or one of the exceptions
\* the handlers of doapi distinguish.  hasReason = FALSE is a response
\* object without a `reason` attribute.
\* 200 and 201 are classified by their body alone, the other codes by
\* their reason alone.
Responses ==
    {r \in [kind : {"response"}, code : SuccessCodes, body : Bodies, hasReason : BOOLEAN] :
        /\ r.code \in {200, 201} => r.hasReason
        /\ r.code \notin {200, 201} => r.body \in {BodyEmpty, BodyObject}}

HTTPErrors ==
    {e \in [kind : {"HTTPError"}, code : ErrorCodes, body : ErrorBodies, hasReason : {TRUE}] :
        e.code = 500 => e.body = BodyEnvelopeDenied}

Failures ==
    [kind : {"URLError", "SSLValidationError", "ConnectionError"},
     code : {0}, body : {BodyEmpty}, hasReason : {FALSE}]

Outcomes == Responses \cup HTTPErrors \cup Failures

(***************************************************************************)
(* bytes.decode("utf8") and json.loads                                     *)
(***************************************************************************)
\* response.decode("utf8"): raises UnicodeDecodeError (a ValueError) on
\* bytes that are not UTF-8
Utf8Decode(body) ==
    IF body = BodyBadUtf8 THEN [ok |-> FALSE, val |-> BodyEmpty]
    ELSE [ok |-> TRUE, val |-> body]

\* json.loads: the decoded value, or ok = FALSE for ValueError
JsonLoads(body) ==
    CASE body = BodyObject -> [ok |-> TRUE, val |-> PyDict("result")]
      [] body = BodyNoContentString -> [ok |-> TRUE, val |-> PyStr("No Content")]
      [] body \in Envelopes -> [ok |-> TRUE, val |-> PyDict("error")]
      [] OTHER -> [ok |-> FALSE, val |-> PyStr("")]

\* errbody["error"]["message"] and errbody["error"]["code"]
HasErrorEnvelope(body) == body \in Envelopes

ErrorMessage(body) ==
    IF body = BodyEnvelopeNotFound THEN "Object not found" ELSE "Access denied"

ErrorCode(body) ==
    IF body = BodyEnvelopeNotFound THEN 2049 ELSE 16544

(***************************************************************************)
(* doapi                                                                   *)
(***************************************************************************)
maxtries == 5

\* Result of running one pass of the loop body: the result dict, the try
\* counter, where control goes ("loop", "returned", "raised") and the
\* exception that leaves doapi, if any.
Step(res, t, where, exc) == [result |-> res, tries |-> t, pc |-> where, exc |-> exc]

\* a return that forgets the "No Content" normalisation of lines 120-121
Finish_NoNormalise(res, t) == Step(res, t, "returned", "none")

\* lines 120-123: normalise the "No Content" reason and return
Finish(res, t) ==
    LET msg == IF HasKey(res, "message") THEN res["message"] ELSE PyStr("")
    IN IF msg = PyStr("No Content")
       THEN Step(Put(res, "message", PyStr("")), t, "returned", "none")
       ELSE Step(res, t, "returned", "none")

\* lines 74-94: classify a response by its status code
OnResponse(res, t, o) ==
    CASE o.code = 200 ->
           LET d == Utf8Decode(o.body)
           IN IF ~d.ok \/ ~JsonLoads(d.val).ok
              THEN Step(res, t, "raised", "ValueError")
              ELSE Finish(Put(Put(res, "message", JsonLoads(d.val).val), "changed", TRUE), t)
      [] o.code = 201 ->
           IF JsonLoads(o.body).ok
           THEN Finish(Put(Put(res, "message", JsonLoads(o.body).val), "changed", TRUE), t)
           ELSE Finish(Put(Put(res, "message", PyStr("")), "changed", TRUE), t)
      [] OTHER ->
           IF o.hasReason
           THEN Finish(Put(Put(res, "message", PyStr(ReasonOf(o.code))), "changed", TRUE), t)
           ELSE Finish(Put(Put(res, "message", PyStr("")), "changed", TRUE), t)

\* an HTTPError handler that reports the rejected request as a change
OnHTTPError_Changed(res, t, o) ==
    IF ~JsonLoads(o.body).ok THEN Step(res, t, "raised", "ValueError")
    ELSE IF ~HasErrorEnvelope(o.body) THEN Step(res, t, "raised", "KeyError")
    ELSE Finish(Put(Put(res, "changed", TRUE), "warnings",
                    <<ReasonOf(o.code), ErrorMessage(o.body), ErrorCode(o.body)>>), t)

\* lines 95-102: HTTPError, a 4xx/5xx answer with an error envelope
OnHTTPError(res, t, o) ==
    IF ~JsonLoads(o.body).ok THEN Step(res, t, "raised", "ValueError")
    ELSE IF ~HasErrorEnvelope(o.body) THEN Step(res, t, "raised", "KeyError")
    ELSE Finish(Put(Put(res, "changed", FALSE), "warnings",
                    <<ReasonOf(o.code), ErrorMessage(o.body), ErrorCode(o.body)>>), t)

\* a URLError handler that waits and goes on like the ConnectionError one
OnURLError_Retry(res, t, o) ==
    IF t = maxtries THEN Step(res, t, "raised", "AnsibleError")
    ELSE Finish(res, t)

\* lines 103-106: URLError
OnURLError(res, t, o) == Step(res, t, "raised", "AnsibleError")

\* lines 107-111: SSLValidationError
OnSSLValidationError(res, t, o) == Step(res, t, "raised", "AnsibleError")

\* a ConnectionError handler that goes round the loop again without
\* counting the failed try
OnConnectionError_Uncounted(res, t, o) == Step(res, t - 1, "loop", "none")

\* lines 112-118 followed by lines 120-123
OnConnectionError(res, t, o) ==
    IF t = maxtries THEN Step(res, t, "raised", "AnsibleError")
    ELSE Finish(res, t)

\* lines 53-123: one pass of the loop body, started with `tries` = t
LoopBody(res, t, o) ==
    CASE o.kind = "response" -> OnResponse(res, t + 1, o)
      [] o.kind = "HTTPError" -> OnHTTPError(res, t + 1, o)
      [] o.kind = "URLError" -> OnURLError(res, t + 1, o)
      [] o.kind = "SSLValidationError" -> OnSSLValidationError(res, t + 1, o)
      [] o.kind = "ConnectionError" -> OnConnectionError(res, t + 1, o)

(***************************************************************************)
(* Inventory plugin: strings                                               *)
(*                                                                         *)
(* _sanitize works on the characters of a string, so the strings of the    *)
(* inventory are sequences of one-character strings.                       *)
(***************************************************************************)
UpperCase == <<"A", "B", "C", "D", "E", "F", "G", "H", "I", "J", "K", "L", "M",
               "N", "O", "P", "Q", "R", "S", "T", "U", "V", "W", "X", "Y", "Z">>

LowerCase == <<"a", "b", "c", "d", "e", "f", "g", "h", "i", "j", "k", "l", "m",
               "n", "o", "p", "q", "r", "s", "t", "u", "v", "w", "x", "y", "z">>

\* str.lower() on one character
Lower(ch) ==
    IF \E i \in 1..Len(UpperCase) : UpperCase[i] = ch
    THEN LowerCase[CHOOSE i \in 1..Len(UpperCase) : UpperCase[i] = ch]
    ELSE ch

\* the character class of the regular expression of line 161:
\* the range from space to slash, then the characters listed after it
SanitizedChars ==
    {" ", "!", "\"", "#", "$", "%", "&", "'", "(", ")", "*", "+", ",", "-", ".", "/"}
        \cup {"\\", "&", "*", "^", "%", "$", "#", "@", "!", "+", "=", "`", "~", ":",
              ";", "<", ">", "?", ",", ".", "\"", "'", "(", ")", "[", "]", "{", "}"}

\* swapcase in the place of lower
_sanitize_swapcase(data) ==
    [i \in 1..Len(data) |->
        IF \E j \in 1..Len(UpperCase) : UpperCase[j] = data[i]
        THEN LowerCase[CHOOSE j \in 1..Len(UpperCase) : UpperCase[j] = data[i]]
        ELSE IF \E j \in 1..Len(LowerCase) : LowerCase[j] = data[i]
        THEN UpperCase[CHOOSE j \in 1..Len(LowerCase) : LowerCase[j] = data[i]]
        ELSE IF data[i] \in SanitizedChars THEN "_" ELSE data[i]]

\* lines 158-163
_sanitize(data) ==
    [i \in 1..Len(data) |->
        IF Lower(data[i]) \in SanitizedChars THEN "_" ELSE Lower(data[i])]

S_all == <<"a", "l", "l">>

S_mm_urls == <<"m", "m", "_", "u", "r", "l", "s">>

S_micetro_ == <<"m", "i", "c", "e", "t", "r", "o", "_">>

S_range_ == <<"r", "a", "n", "g", "e", "_">>

S_underscore == <<"_">>

(***************************************************************************)
(* Inventory plugin: what the server holds and what is configured          *)
(***************************************************************************)
S_LAN1 == <<"L", "A", "N", "1">>

S_LAN2 == <<"L", "A", "N", "2">>

S_Location == <<"L", "o", "c", "a", "t", "i", "o", "n">>

S_location == <<"l", "o", "c", "a", "t", "i", "o", "n">>

S_OS == <<"O", "S">>

S_os == <<"o", "s">>

S_London == <<"L", "o", "n", "d", "o", "n">>

S_london == <<"l", "o", "n", "d", "o", "n">>

S_Paris == <<"P", "a", "r", "i", "s">>

S_NewYorkNY == <<"N", "e", "w", " ", "Y", "o", "r", "k", ",", " ", "N", "Y">>

S_Linux == <<"L", "i", "n", "u", "x">>

S_linux == <<"l", "i", "n", "u", "x">>

\* child ranges as listed in a range's childRanges
ChildLAN1 == [ref |-> "Ranges/11", name |-> S_LAN1]

ChildLAN2 == [ref |-> "Ranges/12", name |-> S_LAN2]

\* a range of the Ranges listing: its name and its childRanges
Range(n, kids) == [name |-> n, childRanges |-> kids]

S_Root == <<"R", "o", "o", "t">>

\* the Ranges listings the server may answer with
RangesListings ==
    { <<>>,
      <<Range(S_Root, <<ChildLAN1>>), Range(S_LAN1, <<>>)>>,
      <<Range(S_Root, <<ChildLAN1, ChildLAN2>>), Range(S_LAN1, <<>>), Range(S_LAN2, <<>>)>>,
      <<Range(S_Root, <<ChildLAN2, ChildLAN1>>), Range(S_LAN2, <<>>), Range(S_LAN1, <<>>)>>,
      <<Range(S_Root, <<ChildLAN1>>), Range(S_LAN2, <<ChildLAN1>>), Range(S_LAN1, <<>>)>> }

\* the customProperties of a record, in the iteration order of the dict
Prop(k, v) == [key |-> k, val |-> v]

CustomProperties ==
    { <<>>,
      <<Prop(S_Location, S_London)>>,
      <<Prop(S_Location, S_Paris)>>,
      <<Prop(S_Location, S_NewYorkNY)>>,
      <<Prop(S_OS, S_Linux)>>,
      <<Prop(S_Location, S_London), Prop(S_OS, S_Linux)>>,
      <<Prop(S_OS, S_Linux), Prop(S_Location, S_London)>> }

\* hostname and address of the k-th record the server hands out
Digits == <<"1", "2", "3", "4", "5", "6", "7", "8", "9">>

HostName(k) == <<"h", "o", "s", "t", Digits[k]>>

Address(k) == <<"1", "0", ".", "0", ".", "0", ".", Digits[k]>>

\* what a record looks like apart from its name and address: whether it has
\* a DNS host binding, and its custom properties
RecordShapes ==
    [bound : {TRUE}, customProperties : CustomProperties]
        \cup [bound : {FALSE},
              customProperties : {<<>>, <<Prop(S_Location, S_London)>>}]

\* the k-th IPAM record, of shape sh
IpamRecord(k, sh) ==
    [address |-> Address(k),
     dnsHosts |-> IF sh.bound THEN <<HostName(k)>> ELSE <<>>,
     customProperties |-> sh.customProperties]

\* an ipamRecords list of shapes shs whose first record is the k-th
RECURSIVE IpamRecords(_, _)
IpamRecords(k, shs) ==
    IF shs = <<>> THEN <<>>
    ELSE <<IpamRecord(k, Head(shs))>> \o IpamRecords(k + 1, Tail(shs))

ShapeLists(n) == UNION {[1..m -> RecordShapes] : m \in 0..n}

\* a filter is a dict; the `filters` option is a list of them (or unset)
Filter(k, v) == [x \in {k} |-> v]

FilterLists ==
    { <<>>,
      <<Filter(S_location, S_london)>>,
      <<Filter(S_location, S_london), Filter(S_os, S_linux)>>,
      <<Filter(S_os, S_linux), Filter(S_location, S_london)>> }

\* the `ranges` option: a list of range names (or unset)
RangeSelectors == { <<>>, <<S_LAN1>>, <<S_Root, S_LAN2>> }

InSeq(x, seq) == \E i \in 1..Len(seq) : seq[i] = x

(***************************************************************************)
(* get_inventory                                                           *)
(***************************************************************************)
\* line 247
EmptyInventory ==
    [hosts |-> <<>>, groups |-> [g \in {S_all, S_mm_urls} |-> <<>>]]

\* lines 324-326 and 328-330: create the group if needed, append the host
AddToGroup(groups, g, hostname) ==
    IF g \in DOMAIN groups
    THEN [groups EXCEPT ![g] = Append(@, hostname)]
    ELSE [x \in (DOMAIN groups) \cup {g} |-> IF x = g THEN <<hostname>> ELSE groups[x]]

\* a filter loop in which the first filter of the list decides
ApplyFilters_First(filters, add_host, custprop, custval) ==
    IF filters = <<>> THEN add_host
    ELSE (custprop \in DOMAIN Head(filters)) /\ Head(filters)[custprop] = custval

\* lines 315-317: every filter of the list overwrites add_host
RECURSIVE ApplyFilters(_, _, _, _)
ApplyFilters(filters, add_host, custprop, custval) ==
    IF filters = <<>> THEN add_host
    ELSE ApplyFilters(Tail(filters),
                      (custprop \in DOMAIN Head(filters)) /\ Head(filters)[custprop] = custval,
                      custprop, custval)

\* a group name put together without _sanitize
CustGroup_Unsanitized(custprop, custval) ==
    S_micetro_ \o custprop \o S_underscore \o custval

\* lines 303-304: custgroup = _sanitize("micetro_%s_%s" % (custprop, custval))
CustGroup(custprop, custval) ==
    _sanitize(S_micetro_ \o custprop \o S_underscore \o custval)

\* lines 299-330: the loop over the custom properties of one record;
\* gives the inventory and add_host after the loop
RECURSIVE PropertyLoop(_, _, _, _, _, _, _)
PropertyLoop(invent, add_host, props, hostname, address, child, filters) ==
    IF props = <<>> THEN [invent |-> invent, add_host |-> add_host]
    ELSE LET custgroup == CustGroup(Head(props).key, Head(props).val)
             custprop == _sanitize(Head(props).key)
             custval == _sanitize(Head(props).val)
             rangegrp == S_range_ \o _sanitize(child.name)
             add == IF filters # <<>>
                    THEN ApplyFilters(filters, add_host, custprop, custval)
                    ELSE add_host
             inv == IF add
                    THEN [hosts |-> Append(invent.hosts, [name |-> hostname, address |-> address]),
                          groups |-> AddToGroup(AddToGroup(invent.groups, custgroup, hostname),
                                                rangegrp, hostname)]
                    ELSE invent
         IN PropertyLoop(inv, add, Tail(props), hostname, address, child, filters)

\* the host goes to 'all' only
AddHost_AllOnly(invent, hostname) ==
    [hosts |-> invent.hosts,
     groups |-> [invent.groups EXCEPT ![S_all] = Append(@, hostname)]]

\* lines 334-335: the host goes to 'all' and to 'mm_urls'
AddHost(invent, hostname) ==
    [hosts |-> invent.hosts,
     groups |-> [invent.groups EXCEPT
                    ![S_all] = Append(@, hostname),
                    ![S_mm_urls] = Append(@, hostname)]]

\* a record loop without the check of lines 287-288: a record without DNS
\* host binding goes on under its address
ProcessRecord_NoSkip(invent, ipam, child, filters) ==
    LET address == ipam.address
        hostname == IF ipam.dnsHosts = <<>> THEN ipam.address ELSE Head(ipam.dnsHosts)
        after == PropertyLoop(invent, TRUE, ipam.customProperties,
                              hostname, address, child, filters)
    IN IF after.add_host THEN AddHost(after.invent, hostname) ELSE after.invent

\* lines 287-335: one record of a range
ProcessRecord(invent, ipam, child, filters) ==
    IF ipam.dnsHosts = <<>> THEN invent
    ELSE LET address == ipam.address
             hostname == Head(ipam.dnsHosts)
             after == PropertyLoop(invent, TRUE, ipam.customProperties,
                                   hostname, address, child, filters)
         IN IF after.add_host THEN AddHost(after.invent, hostname) ELSE after.invent

\* lines 281-335: all records of one range, in the order of the response
RECURSIVE ProcessRecords(_, _, _, _)
ProcessRecords(invent, ipamRecords, child, filters) ==
    IF ipamRecords = <<>> THEN invent
    ELSE ProcessRecords(ProcessRecord(invent, Head(ipamRecords), child, filters),
                        Tail(ipamRecords), child, filters)

\* a child loop that takes every child, whatever the `ranges` option says
RECURSIVE WantedChildren_All(_, _)
WantedChildren_All(childRanges, ranges) ==
    IF childRanges = <<>> THEN <<>>
    ELSE <<[ref |-> Head(childRanges).ref, name |-> Head(childRanges).name]>>
         \o WantedChildren_All(Tail(childRanges), ranges)

\* lines 259-269: the children of one range that are wanted
RECURSIVE WantedChildren(_, _)
WantedChildren(childRanges, ranges) ==
    IF childRanges = <<>> THEN <<>>
    ELSE (IF ranges # <<>>
          THEN (IF InSeq(Head(childRanges).name, ranges)
                THEN <<[ref |-> Head(childRanges).ref, name |-> Head(childRanges).name]>>
                ELSE <<>>)
          ELSE <<[ref |-> Head(childRanges).ref, name |-> Head(childRanges).name]>>)
         \o WantedChildren(Tail(childRanges), ranges)

\* lines 256-269: the list `children`
RECURSIVE FindChildren(_, _)
FindChildren(listing, ranges) ==
    IF listing = <<>> THEN <<>>
    ELSE (IF Head(listing).childRanges # <<>>
          THEN WantedChildren(Head(listing).childRanges, ranges)
          ELSE <<>>)
         \o FindChildren(Tail(listing), ranges)

\* What the gateway can hand to get_inventory for one request: doapi run on
\* an answer of the server.
InventoryOutcomes ==
    {o \in Outcomes :
        \/ o.kind = "response" /\ o.code = 200 /\ o.body = BodyObject
        \/ o.kind = "response" /\ o.code = 204 /\ o.hasReason /\ o.body = BodyEmpty
        \/ o.kind = "HTTPError" /\ o.code = 404 /\ o.body = BodyEnvelopeNotFound
        \/ o.kind \in {"URLError", "ConnectionError"}}

\* lines 253 and 278: result = doapi(url, http_method, mm_provider, databody)
Doapi(o) == LoopBody(EmptyDict, 0, o)

\* subscripts that never raise
SubscriptError_None(res) == "none"

\* lines 257 and 281: result["message"]["result"][...]; the exception the
\* subscripts raise, "none" when the result carries a decoded JSON object
SubscriptError(res) ==
    IF ~HasKey(res, "message") THEN "KeyError"
    ELSE IF res["message"].type # "dict" THEN "TypeError"
    ELSE "none"

(***************************************************************************)
(* get_inventory run from its first line to its last, as parse calls it    *)
(***************************************************************************)
\* what one GetIPAMRecords request gets: the outcome of open_url and, when
\* it is a 200 with a JSON body, the shapes of the records in it
Answer(o, shs) == [answer |-> o, shapes |-> shs]

\* the result of a run: "returned" with the inventory or "raised" with the
\* exception, and the outcomes of the requests that were made
Returned(inv, outs) ==
    [status |-> "returned", exc |-> "none", invent |-> inv, answers |-> outs]

Raised(exc, outs) ==
    [status |-> "raised", exc |-> exc, invent |-> EmptyInventory, answers |-> outs]

\* lines 275-338: `for child in children`, then `return invent`; k is the
\* number of the next record of the server
RECURSIVE ScanChildren(_, _, _, _, _, _)
ScanChildren(inv, kids, answers, fs, k, outs) ==
    IF kids = <<>> THEN Returned(inv, outs)
    ELSE LET a == Head(answers)
             s == Doapi(a.answer)
         IN IF s.pc = "raised" THEN Raised(s.exc, Append(outs, a.answer))
            ELSE IF SubscriptError(s.result) # "none"
            THEN Raised(SubscriptError(s.result), Append(outs, a.answer))
            ELSE ScanChildren(ProcessRecords(inv, IpamRecords(k, a.shapes), Head(kids), fs),
                              Tail(kids), Tail(answers), fs, k + Len(a.shapes),
                              Append(outs, a.answer))

\* lines 234-338: get_inventory with the options fs and rs, when the Ranges
\* request gets `first` (and the listing l if that is a 200 with a JSON
\* body) and the GetIPAMRecords requests get `answers`, in order
GetInventory(fs, rs, first, l, answers) ==
    LET s == Doapi(first)
    IN IF s.pc = "raised" THEN Raised(s.exc, <<first>>)
       ELSE IF SubscriptError(s.result) # "none"
       THEN Raised(SubscriptError(s.result), <<first>>)
       ELSE ScanChildren(EmptyInventory, FindChildren(l, rs), answers, fs, 1, <<first>>)

(***************************************************************************)
(* parse: the cache and the Ansible inventory                              *)
(***************************************************************************)
\* configuration paths parse is called with
Paths == {"micetro.yml", "@micetro_inventory"}

\* line 360: get_cache_key(path), a key made of the plugin name and the path
CacheKey(path) == <<"micetro_inventory", path>>

\* line 355: use_cache = self.get_option("cache") and cache
UseCache(cacheOption, cacheArg) == cacheOption /\ cacheArg

\* lines 367-376: the cached inventory, or a miss (KeyError)
CacheLookup(c, key) ==
    IF key \in DOMAIN c THEN [hit |-> TRUE, invent |-> c[key]]
    ELSE [hit |-> FALSE, invent |-> EmptyInventory]

\* line 379: update_cache or not use_cache, always true
NeedsInventory_Always(update_cache, use_cache) == TRUE

\* line 379: update_cache or not use_cache
NeedsInventory(update_cache, use_cache) == update_cache \/ ~use_cache

\* a cache update that stores the inventory whether the cache is in use or
\* not
StoreInCache_Regardless(c, key, inv, use_cache, update_cache, old_cache) ==
    Put(c, key, inv)

\* a cache update that stores nothing
StoreInCache_Nothing(c, key, inv, use_cache, update_cache, old_cache) == c

\* lines 395-406: store the inventory under the key when the cache is in use
\* and needs updating; self._cache[cache_key] = invent with the cache
\* plugin of Ansible 2.8+, self.cache.set(cache_key, invent) with the older
\* one, both taken as a write to the one cache the lookup reads
StoreInCache(c, key, inv, use_cache, update_cache, old_cache) ==
    IF use_cache /\ update_cache
    THEN (IF ~old_cache THEN Put(c, key, inv) ELSE Put(c, key, inv))
    ELSE c

\* the inventory object parse is handed: no host, no group
EmptyAnsibleInventory == [hosts |-> <<>>, groups |-> <<>>]

\* a host added without variable has no ansible_host
NoAddress == <<>>

\* lines 383-388: add_host and set_variable(..., "ansible_host", address)
\* for every entry of 'hosts'
RECURSIVE AddHosts(_, _)
AddHosts(hostvars, hosts) ==
    IF hosts = <<>> THEN hostvars
    ELSE AddHosts(Put(hostvars, Head(hosts).name, Head(hosts).address), Tail(hosts))

\* lines 389-392: add_group for every group, add_host(host, group=grp) for
\* every member; a member that is no host yet becomes one, without address
Populate(ansible, inv) ==
    LET hostvars == AddHosts(ansible.hosts, inv.hosts)
        members == UNION {{inv.groups[g][i] : i \in 1..Len(inv.groups[g])} :
                           g \in DOMAIN inv.groups}
    IN [hosts |-> [h \in (DOMAIN hostvars) \cup members |->
                      IF h \in DOMAIN hostvars THEN hostvars[h] ELSE NoAddress],
        groups |-> [g \in (DOMAIN ansible.groups) \cup (DOMAIN inv.groups) |->
                       (IF g \in DOMAIN ansible.groups THEN ansible.groups[g] ELSE {})
                       \cup (IF g \in DOMAIN inv.groups
                             THEN {inv.groups[g][i] : i \in 1..Len(inv.groups[g])}
                             ELSE {})]]

\* what is known of a call of parse once it is over
ParseRecord(path, cacheOption, cacheArg, use_cache, hit, status, exc, passes, inv, outs) ==
    [op |-> "parse", path |-> path, cacheOption |-> cacheOption, cacheArg |-> cacheArg,
     useCache |-> use_cache, hit |-> hit,
     status |-> status, exc |-> exc, passes |-> passes, invent |-> inv,
     answers |-> outs]

NoParse(op) ==
    [op |-> op, path |-> "", cacheOption |-> FALSE, cacheArg |-> FALSE,
     useCache |-> FALSE, hit |-> FALSE, status |-> "none",
     exc |-> "none", passes |-> 0, invent |-> EmptyInventory, answers |-> <<>>]

\* lines 340-409: parse with the cache c; `run` is what get_inventory does
\* if it is called.  Gives the cache, the inventory object and the record
\* of the call.
ParseOutcome(c, path, cacheOption, cacheArg, old_cache, run) ==
    LET use_cache == UseCache(cacheOption, cacheArg)
        cache_key == CacheKey(path)
        found == IF use_cache THEN CacheLookup(c, cache_key)
                 ELSE [hit |-> FALSE, invent |-> EmptyInventory]
        update_cache == use_cache /\ ~found.hit
    IN IF NeedsInventory(update_cache, use_cache)
       THEN (IF run.status = "raised"
             THEN [cache |-> c,
                   inventory |-> EmptyAnsibleInventory,
                   last |-> ParseRecord(path, cacheOption, cacheArg, use_cache, found.hit, "raised", run.exc,
                                        1, EmptyInventory, run.answers)]
             ELSE [cache |-> StoreInCache(c, cache_key, run.invent, use_cache,
                                          update_cache, old_cache),
                   inventory |-> Populate(EmptyAnsibleInventory, run.invent),
                   last |-> ParseRecord(path, cacheOption, cacheArg, use_cache, found.hit, "ok", "none",
                                        1, run.invent, run.answers)])
       ELSE [cache |-> StoreInCache(c, cache_key, found.invent, use_cache,
                                    update_cache, old_cache),
             inventory |-> Populate(EmptyAnsibleInventory, found.invent),
             last |-> ParseRecord(path, cacheOption, cacheArg, use_cache, found.hit, "ok", "none",
                                  0, EmptyInventory, <<>>)]

\* the servers and options the calls of parse are run against
ParseListings ==
    { <<>>, <<Range(S_Root, <<ChildLAN1>>), Range(S_LAN1, <<>>)>> }

ShapePlain == [bound |-> TRUE, customProperties |-> <<>>]

ShapeLondon == [bound |-> TRUE, customProperties |-> <<Prop(S_Location, S_London)>>]

ShapeParis == [bound |-> TRUE, customProperties |-> <<Prop(S_Location, S_Paris)>>]

ParseShapeLists ==
    { <<>>, <<ShapeLondon>>, <<ShapePlain, ShapeParis>> }

ParseFilterLists == { <<>>, <<Filter(S_location, S_london)>> }

ParseAnswers ==
    {Answer(o, shs) : o \in InventoryOutcomes, shs \in ParseShapeLists}

\* every way get_inventory can go against these servers and options
Runs ==
    {GetInventory(fs, <<>>, first, l, <<a>>) :
        fs \in ParseFilterLists, first \in InventoryOutcomes,
        l \in ParseListings, a \in ParseAnswers}

VARIABLES
    pc,        \* pc[c]: "idle", "loop", "returned" or "raised"
    tries,     \* tries[c]: the local `tries` of call c
    result,    \* result[c]: the local `result` dict of call c
    raised,    \* raised[c]: exception that left call c, "none" otherwise
    requests,  \* requests[c]: open_url calls made by call c
    log,       \* log[c]: what each open_url of call c got, in order
    ipc,       \* get_inventory: "start", "scan", "returned" or "raised"
    filters,   \* the `filters` option
    ranges,    \* the `ranges` option
    children,  \* get_inventory: the list `children`
    nextChild, \* get_inventory: position of `for child in children`
    invent,    \* get_inventory: the dict `invent`
    ierr,      \* exception that left get_inventory, "none" otherwise
    listing,   \* the Ranges listing the server answered with
    queried,   \* the rangeRef of every GetIPAMRecords request, in order
    served,    \* every record the server handed out, with its range
    lastAnswer, \* what open_url got on the latest request of get_inventory
    cache,     \* parse: the cache, cache key -> cached inventory
    inventory, \* parse: the inventory object the latest call filled
    lastParse, \* the latest call of parse, if it was the latest step
    spc,       \* _sanitize: "in", then "once", then "twice"
    data,      \* _sanitize: the string handed in
    once,      \* _sanitize(data)
    twice,     \* _sanitize(_sanitize(data))
    mm_provider, \* doapi: the connection descriptor the callers pass in
    server,    \* modules: the groups and the IPAM records of the server
    lastRun    \* modules: the run of a module, once it is over

gwvars == <<pc, tries, result, raised, requests, log, mm_provider>>

invvars == <<ipc, filters, ranges, children, nextChild, invent, ierr, listing,
             queried, served, lastAnswer>>

parsevars == <<cache, inventory, lastParse>>

vars == <<pc, tries, result, raised, requests, log, ipc, filters, ranges,
          children, nextChild, invent, ierr, listing, queried, served, lastAnswer,
          cache, inventory, lastParse, spc, data, once, twice, mm_provider,
          server, lastRun>>

modvars == <<server, lastRun>>

sanvars == <<spc, data, once, twice>>

Done == {"returned", "raised"}

\* the mm_provider dict of the callers: the keys doapi reads
Provider ==
    [mm_url |-> "https://micetro.example.net", mm_user |-> "apiuser",
     mm_password |-> "secret"]

GwInit ==
    /\ pc = [c \in Calls |-> "idle"]
    /\ tries = [c \in Calls |-> 0]
    /\ result = [c \in Calls |-> EmptyDict]
    /\ raised = [c \in Calls |-> "none"]
    /\ requests = [c \in Calls |-> 0]
    /\ log = [c \in Calls |-> <<>>]
    /\ mm_provider = Provider

\* a doapi whose result dict outlives the call
Invoke_KeepResult(c) ==
    /\ pc[c] # "loop"
    /\ pc' = [pc EXCEPT ![c] = "loop"]
    /\ tries' = [tries EXCEPT ![c] = 0]
    /\ raised' = [raised EXCEPT ![c] = "none"]
    /\ requests' = [requests EXCEPT ![c] = 0]
    /\ log' = [log EXCEPT ![c] = <<>>]
    /\ UNCHANGED <<result, mm_provider, invvars, parsevars, sanvars, modvars>>

\* lines 44-50: a caller enters doapi
Invoke(c) ==
    /\ pc[c] # "loop"
    /\ pc' = [pc EXCEPT ![c] = "loop"]
    /\ tries' = [tries EXCEPT ![c] = 0]
    /\ result' = [result EXCEPT ![c] = EmptyDict]
    /\ raised' = [raised EXCEPT ![c] = "none"]
    /\ requests' = [requests EXCEPT ![c] = 0]
    /\ log' = [log EXCEPT ![c] = <<>>]
    /\ UNCHANGED <<mm_provider, invvars, parsevars, sanvars, modvars>>

\* lines 52-123: one pass of `while tries <= 4`
Attempt(c) ==
    /\ pc[c] = "loop"
    /\ tries[c] <= 4
    /\ requests[c] < ReqCap
    /\ \E o \in Outcomes :
         LET s == LoopBody(result[c], tries[c], o)
         IN /\ pc' = [pc EXCEPT ![c] = s.pc]
            /\ tries' = [tries EXCEPT ![c] = s.tries]
            /\ result' = [result EXCEPT ![c] = s.result]
            /\ raised' = [raised EXCEPT ![c] = s.exc]
            /\ requests' = [requests EXCEPT ![c] = @ + 1]
            /\ log' = [log EXCEPT ![c] = Append(@, o)]
    /\ UNCHANGED <<mm_provider, invvars, parsevars, sanvars, modvars>>

(***************************************************************************)
(* get_inventory as a process: one step per gateway request                *)
(***************************************************************************)
\* no request was made yet
NoAnswer == [kind |-> "none", code |-> 0, body |-> BodyEmpty, hasReason |-> FALSE]

\* get_inventory has not been entered; the options are not read yet
InvIdle ==
    /\ ipc = "idle"
    /\ filters = <<>>
    /\ ranges = <<>>
    /\ children = <<>>
    /\ nextChild = 1
    /\ invent = EmptyInventory
    /\ ierr = "none"
    /\ listing = <<>>
    /\ queried = <<>>
    /\ served = <<>>
    /\ lastAnswer = NoAnswer

\* lines 234-247: the options are read, the inventory is (almost) empty
InvInit ==
    /\ ipc = "start"
    /\ filters \in FilterLists
    /\ ranges \in RangeSelectors
    /\ children = <<>>
    /\ nextChild = 1
    /\ invent = EmptyInventory
    /\ ierr = "none"
    /\ listing = <<>>
    /\ queried = <<>>
    /\ served = <<>>
    /\ lastAnswer = NoAnswer

\* where `for child in children` stands after position n was handled
AfterChild(kids, n) == IF n > Len(kids) THEN "returned" ELSE "scan"

\* an exception leaves get_inventory
InvRaise(exc) ==
    /\ ipc' = "raised"
    /\ ierr' = exc
    /\ UNCHANGED <<filters, ranges, children, nextChild, invent, listing, queried, served>>

\* lines 249-269: the Ranges request and the list of wanted children
GetRanges ==
    /\ ipc = "start"
    /\ \E o \in InventoryOutcomes :
         LET s == Doapi(o)
         IN /\ lastAnswer' = o
            /\ IF s.pc = "raised" THEN InvRaise(s.exc)
               ELSE IF SubscriptError(s.result) # "none"
               THEN InvRaise(SubscriptError(s.result))
               ELSE \E l \in RangesListings :
                      /\ listing' = l
                      /\ children' = FindChildren(l, ranges)
                      /\ ipc' = AfterChild(FindChildren(l, ranges), 1)
                      /\ UNCHANGED <<filters, ranges, nextChild, invent, ierr, queried, served>>
    /\ UNCHANGED <<gwvars, parsevars, sanvars, modvars>>

\* lines 275-335: one pass of `for child in children`
ScanChild ==
    /\ ipc = "scan"
    /\ nextChild <= Len(children)
    /\ \E o \in InventoryOutcomes :
         LET s == Doapi(o)
             child == children[nextChild]
         IN /\ lastAnswer' = o
            /\ IF s.pc = "raised"
               THEN InvRaise(s.exc)
               ELSE IF SubscriptError(s.result) # "none"
               THEN InvRaise(SubscriptError(s.result))
               ELSE \E shs \in ShapeLists(MaxRecords - Len(served)) :
                      LET recs == IpamRecords(Len(served) + 1, shs)
                      IN /\ invent' = ProcessRecords(invent, recs, child, filters)
                         /\ served' = served \o [i \in 1..Len(recs) |->
                                                    [scan |-> nextChild,
                                                     range |-> child.name,
                                                     record |-> recs[i]]]
                         /\ queried' = Append(queried, child.name)
                         /\ nextChild' = nextChild + 1
                         /\ ipc' = AfterChild(children, nextChild + 1)
                         /\ UNCHANGED <<filters, ranges, children, ierr, listing>>
    /\ UNCHANGED <<gwvars, parsevars, sanvars, modvars>>

(***************************************************************************)
(* The modules group, claimip and ipprops, run against a server that       *)
(* applies the requests it receives                                        *)
(***************************************************************************)
\* what the server answers to a request it accepts: 200 with a JSON body to
\* a GET, 201 with a JSON body to a POST, 204 to a PUT or a DELETE
Accepted(method) ==
    CASE method = "GET" ->
           [kind |-> "response", code |-> 200, body |-> BodyObject, hasReason |-> TRUE]
      [] method = "POST" ->
           [kind |-> "response", code |-> 201, body |-> BodyObject, hasReason |-> TRUE]
      [] OTHER ->
           [kind |-> "response", code |-> 204, body |-> BodyEmpty, hasReason |-> TRUE]

\* what the server answers to a request for an object it does not have
NotFound ==
    [kind |-> "HTTPError", code |-> 404, body |-> BodyEnvelopeNotFound, hasReason |-> TRUE]

\* a request as open_url sends it: the method, the path after /mmws/api/
\* (its parts, in order) and the data body
Request(method, url, databody) == [method |-> method, url |-> url, databody |-> databody]

\* group.py line 147, claimip.py line 140, ipprops.py line 133
SeedResult == Put(Put(EmptyDict, "changed", FALSE), "message", PyStr(""))

\* module.params.get(key, None), None being as false as an empty list
ParamsGet(params, key) == IF key \in DOMAIN params THEN params[key] ELSE <<>>

\* module.exit_json(**result)
ExitJson(res, reqs) == [status |-> "exit", result |-> res, msg |-> "", sent |-> reqs]

\* module.fail_json(msg=...)
FailJson(msg, reqs) == [status |-> "fail", result |-> EmptyDict, msg |-> msg, sent |-> reqs]

\* the users and roles of the server
ServerUsers == <<[ref |-> "Users/1", name |-> "alice"]>>

ServerRoles == <<[ref |-> "Roles/1", name |-> "Administrators"]>>

GroupRefs == <<"Groups/1", "Groups/2", "Groups/3">>

\* a group as the server lists it
Group(ref, name, description, members, roles) ==
    [ref |-> ref, name |-> name, description |-> description,
     groupMembers |-> members, roles |-> roles]

\* the names of a list of users, roles or groups
Names(objs) == {objs[i].name : i \in 1..Len(objs)}

\* lines 204-214 and 217-227: a requested name that the server does not have
Missing(requested, objs) ==
    \E i \in 1..Len(requested) : requested[i] \notin Names(objs)

\* lines 230-254: the wanted users or roles, in the order of the server
RECURSIVE Wanted(_, _, _)
Wanted(objs, requested, objType) ==
    IF objs = <<>> THEN <<>>
    ELSE (IF InSeq(Head(objs).name, requested)
          THEN <<[ref |-> Head(objs).ref, objType |-> objType, name |-> Head(objs).name]>>
          ELSE <<>>)
         \o Wanted(Tail(objs), requested, objType)

\* lines 280-300 and 305-322: the loop over wanted + present roles or users;
\* gives the requests made and the url and http_method left behind
RECURSIVE MemberLoop(_, _, _, _, _, _)
MemberLoop(items, wanted, present, group_ref, url, http_method) ==
    IF items = <<>> THEN [sent |-> <<>>, url |-> url, http_method |-> http_method]
    ELSE LET this == Head(items)
             m == IF InSeq(this, wanted) /\ ~InSeq(this, present) THEN "PUT"
                  ELSE IF ~InSeq(this, wanted) /\ InSeq(this, present) THEN "DELETE"
                  ELSE ""
             u == IF m # "" THEN <<group_ref, this.ref>> ELSE url
             rest == MemberLoop(Tail(items), wanted, present, group_ref, u, m)
         IN [sent |-> (IF m # "" THEN <<Request(m, u, <<>>)>> ELSE <<>>) \o rest.sent,
             url |-> rest.url, http_method |-> rest.http_method]

\* lines 194-201: the index of the first group of that name, 0 if none
FirstNamed(groups, name) ==
    IF \E i \in 1..Len(groups) : groups[i].name = name
    THEN CHOOSE i \in 1..Len(groups) :
            /\ groups[i].name = name
            /\ \A j \in 1..(i - 1) : groups[j].name # name
    ELSE 0

\* lines 260-333: the group exists, update it
UpdateGroup(params, group_data, wanted_users, wanted_roles, reqs) ==
    LET group_ref == group_data.ref
        put == Request("PUT", <<"Groups", group_ref>>,
                       [name |-> params["name"], description |-> params["desc"]])
        roleloop == MemberLoop(wanted_roles \o group_data.roles, wanted_roles,
                               group_data.roles, group_ref, <<"Groups", group_ref>>, "PUT")
        userloop == MemberLoop(wanted_users \o group_data.groupMembers, wanted_users,
                               group_data.groupMembers, group_ref,
                               roleloop.url, roleloop.http_method)
        change == group_data.name # params["name"]
                      \/ group_data.description # params["desc"]
        again == IF change
                 THEN <<Request(userloop.http_method, userloop.url, <<>>)>>
                 ELSE <<>>
        last == Last(<<put>> \o roleloop.sent \o userloop.sent \o again)
    IN ExitJson(Put(Doapi(Accepted(last.method)).result, "changed", change),
                reqs \o <<put>> \o roleloop.sent \o userloop.sent \o again)

\* lines 334-350: the group does not exist, create it
CreateGroup(params, wanted_users, wanted_roles, reqs) ==
    LET post == Request("POST", <<"Groups">>,
                        [name |-> params["name"], description |-> params["desc"],
                         groupMembers |-> wanted_users, roles |-> wanted_roles])
    IN ExitJson(Doapi(Accepted("POST")).result, Append(reqs, post))

\* group.py lines 118-366: run_module
GroupModule(check_mode, params, server_groups) ==
    IF check_mode THEN ExitJson(SeedResult, <<>>)
    ELSE
    LET wantusers == ParamsGet(params, "users") # <<>>
        wantgroups == ParamsGet(params, "groups") # <<>>
        wantroles == ParamsGet(params, "roles") # <<>>
        users == IF wantusers THEN ServerUsers ELSE <<>>
        groups == IF wantgroups THEN server_groups ELSE <<>>
        roles == IF wantroles THEN ServerRoles ELSE <<>>
        reqs == (IF wantusers THEN <<Request("GET", <<"Users">>, <<>>)>> ELSE <<>>)
                \o (IF wantgroups THEN <<Request("GET", <<"Groups">>, <<>>)>> ELSE <<>>)
                \o (IF wantroles THEN <<Request("GET", <<"Roles">>, <<>>)>> ELSE <<>>)
        found == FirstNamed(groups, params["name"])
        group_exists == found # 0
        wanted_users == Wanted(users, params["users"], "Users")
        wanted_roles == Wanted(roles, params["roles"], "Roles")
    IN IF params["state"] = "present"
       THEN (IF Missing(params["users"], users)
             THEN FailJson("Requested a non existing user", reqs)
             ELSE IF Missing(params["roles"], roles)
             THEN FailJson("Requested a non existing role", reqs)
             ELSE IF group_exists
             THEN UpdateGroup(params, groups[found], wanted_users, wanted_roles, reqs)
             ELSE CreateGroup(params, wanted_users, wanted_roles, reqs))
       ELSE (IF group_exists
             THEN ExitJson(Doapi(Accepted("DELETE")).result,
                           Append(reqs, Request("DELETE", <<"Groups", groups[found].ref>>, <<>>)))
             ELSE ExitJson(Put(SeedResult, "changed", FALSE), reqs))

\* Python's True and False where they stand among strings
PyBool(b) == IF b THEN "<True>" ELSE "<False>"

\* d.pop(key, None)
Pop(d, key) == [x \in (DOMAIN d) \ {key} |-> d[x]]

\* an address the server has a record of, and one it has none of
IpKnown == "172.16.17.2"

IpUnknown == "172.16.17.9"

\* an IPAM record of the server
Record(ip, claimed, props) ==
    [address |-> ip, addrRef |-> "IPAMRecords/1", claimed |-> claimed,
     customProperties |-> props]

\* the server takes a PUT on a record: "claimed" is a property of the
\* record, every other key a custom property
PutRecord(rec, properties) ==
    [rec EXCEPT
        !.claimed = IF "claimed" \in DOMAIN properties
                    THEN properties["claimed"] = PyBool(TRUE) ELSE @,
        !.customProperties =
            [k \in (DOMAIN @) \cup ((DOMAIN properties) \ {"claimed"}) |->
                IF k \in DOMAIN properties THEN properties[k] ELSE @[k]]]

\* claimip.py lines 156-196 and ipprops.py lines 150-208, at the first
\* lines of the loop body: the record is not there, get_single_refs marks
\* the answer invalid and the loop is left
InvalidAddress(res, reqs) ==
    ExitJson(Put(Put(Pop(res, "message"), "warnings", Doapi(NotFound).result["warnings"]),
                 "changed", FALSE),
             reqs)

\* claimip.py lines 156-193: the loop over the addresses
RECURSIVE ClaimLoop(_, _, _, _, _)
ClaimLoop(ips, params, records, res, reqs) ==
    IF ips = <<>> THEN ExitJson(res, reqs)
    ELSE LET ipaddress == Head(ips)
             get == Request("GET", <<"IPAMRecords", ipaddress>>, <<>>)
         IN IF ipaddress \notin DOMAIN records
            THEN InvalidAddress(res, Append(reqs, get))
            ELSE LET ipaddr_ref == records[ipaddress].addrRef
                     curclaim == records[ipaddress].claimed
                     statebool == (params["state"] = "present")
                     custom == ParamsGet(params, "customproperties")
                     properties == [k \in {"claimed"} \cup DOMAIN custom |->
                                       IF k \in DOMAIN custom THEN custom[k]
                                       ELSE PyBool(statebool)]
                     put == Request("PUT", <<ipaddr_ref>>, [properties |-> properties])
                 IN IF curclaim # statebool
                    THEN ClaimLoop(Tail(ips), params,
                                   [records EXCEPT ![ipaddress] = PutRecord(@, properties)],
                                   Doapi(Accepted("PUT")).result, reqs \o <<get, put>>)
                    ELSE ClaimLoop(Tail(ips), params, records,
                                   Put(res, "message", PyStr("No claim change")),
                                   Append(reqs, get))

\* claimip.py lines 112-196: run_module
ClaimipModule(check_mode, params, records) ==
    IF check_mode THEN ExitJson(SeedResult, <<>>)
    ELSE ClaimLoop(params["ipaddress"], params, records, SeedResult, <<>>)

\* ipprops.py lines 181-185: a string that spells a boolean is one
Str2Bool(val) ==
    CASE val \in {"true", "True"} -> PyBool(TRUE)
      [] val \in {"false", "False"} -> PyBool(FALSE)
      [] OTHER -> val

\* ipprops.py lines 176-199: is a change needed
ChangeNeeded(properties, curstat) ==
    \E key \in DOMAIN properties :
        IF key = "claimed" THEN PyBool(curstat.claimed) # Str2Bool(properties[key])
        ELSE IF key \in {"address", "addrRef"} THEN curstat[key] # Str2Bool(properties[key])
        ELSE IF key \in DOMAIN curstat.customProperties
        THEN curstat.customProperties[key] # Str2Bool(properties[key])
        ELSE TRUE

\* ipprops.py lines 150-208: the loop over the addresses
RECURSIVE PropsLoop(_, _, _, _, _)
PropsLoop(ips, params, records, res, reqs) ==
    IF ips = <<>> THEN ExitJson(res, reqs)
    ELSE LET ipaddress == Head(ips)
             get == Request("GET", <<"IPAMRecords", ipaddress>>, <<>>)
         IN IF ipaddress \notin DOMAIN records
            THEN InvalidAddress(res, Append(reqs, get))
            ELSE LET curstat == records[ipaddress]
                     properties == params["properties"]
                     put == Request("PUT", <<curstat.addrRef>>,
                                    [properties |-> properties,
                                     deleteUnspecified |-> params["deleteunspecified"]])
                     change == ChangeNeeded(properties, curstat)
                                   \/ params["deleteunspecified"]
                 IN IF change
                    THEN PropsLoop(Tail(ips), params,
                                   [records EXCEPT ![ipaddress] = PutRecord(@, properties)],
                                   Doapi(Accepted("PUT")).result, reqs \o <<get, put>>)
                    ELSE PropsLoop(Tail(ips), params, records, res, Append(reqs, get))

\* ipprops.py lines 104-211: run_module
IppropsModule(check_mode, params, records) ==
    IF check_mode THEN ExitJson(SeedResult, <<>>)
    ELSE PropsLoop(params["ipaddress"], params, records, SeedResult, <<>>)

\* the server takes a request of the group module
ApplyToGroups(groups, req) ==
    CASE req.method = "POST" /\ req.url = <<"Groups">> ->
           Append(groups, Group(GroupRefs[Len(groups) + 1], req.databody.name,
                                req.databody.description, req.databody.groupMembers,
                                req.databody.roles))
      [] req.method = "DELETE" /\ Len(req.url) = 2 /\ req.url[1] = "Groups" ->
           SelectSeq(groups, LAMBDA g : g.ref # req.url[2])
      [] req.method = "PUT" /\ Len(req.url) = 2 /\ req.url[1] = "Groups" ->
           [i \in 1..Len(groups) |->
               IF groups[i].ref = req.url[2]
               THEN [groups[i] EXCEPT !.name = req.databody.name,
                                      !.description = req.databody.description]
               ELSE groups[i]]
      [] OTHER -> groups

RECURSIVE ApplyAllToGroups(_, _)
ApplyAllToGroups(groups, reqs) ==
    IF reqs = <<>> THEN groups
    ELSE ApplyAllToGroups(ApplyToGroups(groups, Head(reqs)), Tail(reqs))

\* the server takes a request of claimip or ipprops
ApplyToRecords(records, req) ==
    IF req.method = "PUT"
    THEN [ip \in DOMAIN records |->
             IF <<records[ip].addrRef>> = req.url
             THEN PutRecord(records[ip], req.databody.properties) ELSE records[ip]]
    ELSE records

RECURSIVE ApplyAllToRecords(_, _)
ApplyAllToRecords(records, reqs) ==
    IF reqs = <<>> THEN records
    ELSE ApplyAllToRecords(ApplyToRecords(records, Head(reqs)), Tail(reqs))

\* what the server holds before a module runs
GroupLists ==
    { <<>>,
      <<Group("Groups/1", "admins", "Administrators", <<>>, <<>>)>>,
      <<Group("Groups/1", "admins", "Administrators", <<>>, <<>>),
        Group("Groups/2", "ops", "Operators", <<>>, <<>>)>> }

RecordSets ==
    {[ip \in {IpKnown} |-> Record(ip, claimed, props)] :
        claimed \in BOOLEAN,
        props \in {<<>>, [k \in {"location"} |-> "London"]}}

\* the arguments of the modules (argument_spec), mm_provider left aside
GroupParams ==
    [state : {"present", "absent"}, name : {"ops", "web"}, desc : {"Operators"},
     users : {<<>>, <<"alice">>, <<"nobody">>}, roles : {<<>>, <<"Administrators">>}]

ClaimipParams ==
    [state : {"present", "absent"},
     ipaddress : {<<IpKnown>>, <<IpUnknown>>, <<IpKnown, IpUnknown>>},
     customproperties : {<<>>, [k \in {"location"} |-> "London"]}]

IppropsParams ==
    [state : {"present"},
     ipaddress : {<<IpKnown>>, <<IpUnknown>>},
     properties : {[k \in {"location"} |-> "London"], [k \in {"location"} |-> "Paris"],
                   [k \in {"claimed"} |-> "true"]},
     deleteunspecified : BOOLEAN]

\* no module ran
NoRun ==
    [module |-> "none", check_mode |-> FALSE, params |-> <<>>, before |-> <<>>,
     status |-> "none", result |-> EmptyDict, msg |-> "", sent |-> <<>>]

\* what is known of the run of a module once it is over
RunRecord(module, check_mode, params, before, out) ==
    [module |-> module, check_mode |-> check_mode, params |-> params, before |-> before,
     status |-> out.status, result |-> out.result, msg |-> out.msg, sent |-> out.sent]

\* the modules are not in use
ModIdle ==
    /\ server = [groups |-> <<>>, records |-> <<>>]
    /\ lastRun = NoRun

ModInit ==
    /\ server \in [groups : GroupLists, records : RecordSets]
    /\ lastRun = NoRun

\* group.py: one run of the module
RunGroup ==
    /\ lastRun.module = "none"
    /\ \E check_mode \in BOOLEAN, params \in GroupParams :
         LET out == GroupModule(check_mode, params, server.groups)
         IN /\ lastRun' = RunRecord("group", check_mode, params, server, out)
            /\ server' = [server EXCEPT !.groups = ApplyAllToGroups(@, out.sent)]
    /\ UNCHANGED <<gwvars, invvars, parsevars, sanvars>>

\* claimip.py: one run of the module
RunClaimip ==
    /\ lastRun.module = "none"
    /\ \E check_mode \in BOOLEAN, params \in ClaimipParams :
         LET out == ClaimipModule(check_mode, params, server.records)
         IN /\ lastRun' = RunRecord("claimip", check_mode, params, server, out)
            /\ server' = [server EXCEPT !.records = ApplyAllToRecords(@, out.sent)]
    /\ UNCHANGED <<gwvars, invvars, parsevars, sanvars>>

\* ipprops.py: one run of the module
RunIpprops ==
    /\ lastRun.module = "none"
    /\ \E check_mode \in BOOLEAN, params \in IppropsParams :
         LET out == IppropsModule(check_mode, params, server.records)
         IN /\ lastRun' = RunRecord("ipprops", check_mode, params, server, out)
            /\ server' = [server EXCEPT !.records = ApplyAllToRecords(@, out.sent)]
    /\ UNCHANGED <<gwvars, invvars, parsevars, sanvars>>

(***************************************************************************)
(* parse as an operation on the cache                                      *)
(***************************************************************************)
\* nothing is cached, parse was not called
ParseInit ==
    /\ cache = EmptyDict
    /\ inventory = EmptyAnsibleInventory
    /\ lastParse = NoParse("none")

\* lines 340-409: one call of parse on a fresh inventory object
Parse ==
    /\ \E path \in Paths, cacheOption \in BOOLEAN, cacheArg \in BOOLEAN,
          old_cache \in BOOLEAN, run \in Runs :
         LET out == ParseOutcome(cache, path, cacheOption, cacheArg, old_cache, run)
         IN /\ cache' = out.cache
            /\ inventory' = out.inventory
            /\ lastParse' = out.last
    /\ UNCHANGED <<gwvars, invvars, sanvars, modvars>>

\* the cache plugin drops an entry that timed out; the inventory object of
\* the latest call is not looked at any more
Expire ==
    /\ \E key \in DOMAIN cache :
         cache' = [k \in (DOMAIN cache) \ {key} |-> cache[k]]
    /\ inventory' = EmptyAnsibleInventory
    /\ lastParse' = NoParse("expire")
    /\ UNCHANGED <<gwvars, invvars, sanvars, modvars>>

(***************************************************************************)
(* _sanitize as a function of strings                                      *)
(***************************************************************************)
\* characters of every kind _sanitize tells apart: upper and lower case,
\* digit, replaced (in the range and in the list), underscore, and kept
Alphabet == {"A", "b", "7", "-", " ", "[", "_", "|"}

Strings == UNION {[1..n -> Alphabet] : n \in 0..MaxLen}

\* _sanitize is not in use
SanIdle ==
    /\ spc = "in"
    /\ data = <<>>
    /\ once = <<>>
    /\ twice = <<>>

SanInit ==
    /\ spc = "in"
    /\ data \in Strings
    /\ once = <<>>
    /\ twice = <<>>

\* _sanitize(data)
Sanitize ==
    /\ spc = "in"
    /\ once' = _sanitize(data)
    /\ spc' = "once"
    /\ UNCHANGED <<data, twice, gwvars, invvars, parsevars, modvars>>

\* _sanitize of the result
SanitizeAgain ==
    /\ spc = "once"
    /\ twice' = _sanitize(once)
    /\ spc' = "twice"
    /\ UNCHANGED <<data, once, gwvars, invvars, parsevars, modvars>>

Init == GwInit /\ InvIdle /\ ParseInit /\ SanIdle /\ ModIdle

Next == \E c \in Calls : Invoke(c) \/ Attempt(c)

Spec == Init /\ [][Next]_vars

\* the Python thread that runs a call keeps running until doapi is left
FairSpec == Spec /\ \A c \in Calls : WF_vars(Attempt(c))

\* one pass of get_inventory, for every configuration of the options
InitInv == GwInit /\ InvInit /\ ParseInit /\ SanIdle /\ ModIdle

NextInv == GetRanges \/ ScanChild

SpecInv == InitInv /\ [][NextInv]_vars

\* calls of parse, one after the other, on one cache
InitParse == GwInit /\ InvIdle /\ ParseInit /\ SanIdle /\ ModIdle

NextParse == Parse \/ Expire

SpecParse == InitParse /\ [][NextParse]_vars

\* _sanitize applied to a string, then to its own result
InitSan == GwInit /\ InvIdle /\ ParseInit /\ SanInit /\ ModIdle

NextSan == Sanitize \/ SanitizeAgain

SpecSan == InitSan /\ [][NextSan]_vars

\* one run of a module against a server
InitMod == GwInit /\ InvIdle /\ ParseInit /\ SanIdle /\ ModInit

NextMod == RunGroup \/ RunClaimip \/ RunIpprops

SpecMod == InitMod /\ [][NextMod]_vars

(***************************************************************************)
(* Properties of doapi                                                     *)
(***************************************************************************)
Ended(c) == pc[c] \in Done /\ log[c] # <<>>

OkResult(msg) == Put(Put(EmptyDict, "message", msg), "changed", TRUE)

\* C1: a connection error on an attempt before the fifth is followed by
\* another request, and a call whose first k attempts (1 <= k <= 4) fail
\* with a connection error and whose next attempt gets a 200 returns that
\* response.
C1_ConnectionErrorIsRetried ==
    \A c \in Calls :
        /\ \A i \in 1..Len(log[c]) :
             (pc[c] \in Done /\ log[c][i].kind = "ConnectionError" /\ i < maxtries)
                 => Len(log[c]) > i
        /\ (/\ Ended(c)
            /\ Len(log[c]) \in 2..maxtries
            /\ \A i \in 1..(Len(log[c]) - 1) : log[c][i].kind = "ConnectionError"
            /\ Last(log[c]).kind = "response"
            /\ Last(log[c]).code = 200
            /\ Last(log[c]).body = BodyObject)
               => (pc[c] = "returned" /\ result[c] = OkResult(PyDict("result")))

\* C2: a call whose last attempt failed with a connection error ends by
\* raising AnsibleError; it never returns a result dict.
C2_ConnectionFailureIsFatal ==
    \A c \in Calls :
        (Ended(c) /\ Last(log[c]).kind = "ConnectionError")
            => (pc[c] = "raised" /\ raised[c] = "AnsibleError")

IsOk(c) ==
    /\ pc[c] = "returned"
    /\ HasKey(result[c], "message")
    /\ HasKey(result[c], "changed")
    /\ result[c]["changed"] = TRUE
    /\ ~HasKey(result[c], "warnings")

IsApiError(c) ==
    /\ pc[c] = "returned"
    /\ HasKey(result[c], "warnings")
    /\ HasKey(result[c], "changed")
    /\ result[c]["changed"] = FALSE
    /\ ~HasKey(result[c], "message")

IsTransportError(c) == pc[c] = "raised" /\ raised[c] = "AnsibleError"

\* C3: every outcome of a call is an Ok result (message, changed = True),
\* an ApiError result (warnings, changed = False, no message) or a raised
\* AnsibleError; never an empty dict, never message together with warnings.
C3_OutcomeIsOneOfThreeVariants ==
    \A c \in Calls :
        pc[c] \in Done => (IsOk(c) \/ IsApiError(c) \/ IsTransportError(c))

\* C4: whatever the server and the network answer, a call issues at most
\* 5 requests and comes to an end.
C4_TerminatesWithinFiveRequests ==
    /\ [](\A c \in Calls : requests[c] <= maxtries)
    /\ \A c \in Calls : (pc[c] = "loop") ~> (pc[c] \in Done)

C4_Witness ==
    \E c \in Calls :
        Ended(c) /\ requests[c] = 1 /\ Last(log[c]).kind = "ConnectionError"

\* C5: a URLError or an SSLValidationError on an attempt is the last
\* request of the call, and the call raises AnsibleError.
C5_UrlAndSslErrorsAreFatalAtOnce ==
    \A c \in Calls : \A i \in 1..Len(log[c]) :
        log[c][i].kind \in {"URLError", "SSLValidationError"}
            => (i = Len(log[c]) /\ pc[c] = "raised" /\ raised[c] = "AnsibleError")

C5_Witness ==
    /\ \E c \in Calls : pc[c] = "raised" /\ Last(log[c]).kind = "URLError"
    /\ \E c \in Calls : pc[c] = "raised" /\ Last(log[c]).kind = "SSLValidationError"

\* C6: a 4xx/5xx answer with a decodable error envelope is the last request
\* of the call, and the caller gets changed = False with the envelope's
\* message and code in 'warnings'.
C6_ApiErrorIsReturnedWithMessageAndCode ==
    \A c \in Calls : \A i \in 1..Len(log[c]) :
        (log[c][i].kind = "HTTPError" /\ HasErrorEnvelope(log[c][i].body))
            => /\ i = Len(log[c])
               /\ pc[c] = "returned"
               /\ HasKey(result[c], "changed")
               /\ result[c]["changed"] = FALSE
               /\ HasKey(result[c], "warnings")
               /\ result[c]["warnings"][2] = ErrorMessage(log[c][i].body)
               /\ result[c]["warnings"][3] = ErrorCode(log[c][i].body)

C6_Witness ==
    \E c \in Calls :
        /\ pc[c] = "returned"
        /\ Last(log[c]).kind = "HTTPError"
        /\ Last(log[c]).code = 404
        /\ result[c]["warnings"] = <<"Not Found", "Object not found", 2049>>

\* C7: a response with a success status and an empty or non-JSON body gives
\* the caller a success result with an empty message, for every success
\* status (200 with an empty body like 204), and raises nothing.
C7_UndecodableSuccessBodyIsEmptyMessage ==
    \A c \in Calls :
        (/\ Ended(c)
         /\ Last(log[c]).kind = "response"
         /\ ~(Utf8Decode(Last(log[c]).body).ok /\ JsonLoads(Last(log[c]).body).ok))
            => (pc[c] = "returned" /\ result[c] = OkResult(PyStr("")))

\* C8: a 204 answer with reason "No Content" returns changed = True with
\* the empty string as message, no warnings, and raises nothing.
C8_NoContentIsEmptyMessage ==
    \A c \in Calls :
        (/\ Ended(c)
         /\ Last(log[c]).kind = "response"
         /\ Last(log[c]).code = 204
         /\ Last(log[c]).hasReason)
            => (/\ pc[c] = "returned"
                /\ raised[c] = "none"
                /\ result[c] = OkResult(PyStr("")))

C8_Witness ==
    \E c \in Calls :
        /\ pc[c] = "returned"
        /\ Last(log[c]).code = 204
        /\ Last(log[c]).hasReason
        /\ result[c]["message"] = PyStr("")

\* C9: a 201 answer returns a success result whose message is the decoded
\* JSON when the body decodes and the empty string when it does not; it
\* never raises.
C9_CreatedReturnsDecodedBodyOrEmpty ==
    \A c \in Calls :
        (/\ Ended(c)
         /\ Last(log[c]).kind = "response"
         /\ Last(log[c]).code = 201)
            => (/\ pc[c] = "returned"
                /\ raised[c] = "none"
                /\ result[c] = OkResult(IF JsonLoads(Last(log[c]).body).ok
                                        THEN JsonLoads(Last(log[c]).body).val
                                        ELSE PyStr("")))

(***************************************************************************)
(* Properties of get_inventory                                             *)
(***************************************************************************)
\* the hostname is in 'hosts' or in some group of the inventory
Included(inv, hostname) ==
    \/ \E i \in 1..Len(inv.hosts) : inv.hosts[i].name = hostname
    \/ \E g \in DOMAIN inv.groups : InSeq(hostname, inv.groups[g])

\* the record has, for every (property, value) pair of every filter, that
\* sanitized custom property with that sanitized value
SatisfiesEveryFilter(rec, fs) ==
    \A i \in 1..Len(fs) : \A k \in DOMAIN fs[i] :
        \E j \in 1..Len(rec.customProperties) :
            /\ _sanitize(rec.customProperties[j].key) = k
            /\ _sanitize(rec.customProperties[j].val) = fs[i][k]

\* C10: with a non-empty filter list a record is in 'hosts' or in a group
\* (also 'all') only if it satisfies every filter predicate; a record
\* without custom properties or matching only some predicates is left out.
C10_IncludedOnlyIfEveryFilterMatches ==
    filters # <<>> =>
        \A i \in 1..Len(served) :
            (/\ served[i].record.dnsHosts # <<>>
             /\ Included(invent, Head(served[i].record.dnsHosts)))
                => SatisfiesEveryFilter(served[i].record, filters)

\* the records handed out for the n-th GetIPAMRecords request, in order
RECURSIVE RecordsOfScan(_, _)
RecordsOfScan(sv, n) ==
    IF sv = <<>> THEN <<>>
    ELSE (IF Head(sv).scan = n THEN <<Head(sv).record>> ELSE <<>>)
         \o RecordsOfScan(Tail(sv), n)

\* the inventory the first n scans of this pass build when the filter list
\* is fs and the server's answers are the ones it gave
RECURSIVE Rebuild(_, _)
Rebuild(n, fs) ==
    IF n = 0 THEN EmptyInventory
    ELSE ProcessRecords(Rebuild(n - 1, fs), RecordsOfScan(served, n), children[n], fs)

\* every ordering of a list
Orderings(fs) ==
    {[i \in 1..Len(fs) |-> fs[p[i]]] :
        p \in {q \in [1..Len(fs) -> 1..Len(fs)] :
                  \A i, j \in 1..Len(fs) : q[i] = q[j] => i = j}}

\* no two filters of the list name the same property
DistinctProperties(fs) ==
    \A i, j \in 1..Len(fs) : i # j => (DOMAIN fs[i]) \cap (DOMAIN fs[j]) = {}

\* C11: for a filter list whose predicates are on distinct properties, the
\* inventory returned (hosts and the members of every group) is the same
\* for every ordering of the list, the server's answers being the same.
C11_FilterOrderDoesNotMatter ==
    (ipc = "returned" /\ DistinctProperties(filters)) =>
        \A fs \in Orderings(filters) : Rebuild(Len(queried), fs) = invent

\* the entries of 'hosts' for this hostname and address
HostEntries(inv, hostname, address) ==
    {i \in 1..Len(inv.hosts) : inv.hosts[i] = [name |-> hostname, address |-> address]}

\* the records handed out that have a DNS host binding
BoundRecords == {i \in 1..Len(served) : served[i].record.dnsHosts # <<>>}

\* C12: without filters 'hosts' holds exactly one (hostname, address) entry
\* per DNS-bound record of the selected ranges, whether the record has
\* zero, one or several custom properties.
C12_OneHostEntryPerBoundRecord ==
    (ipc = "returned" /\ filters = <<>>) =>
        /\ Len(invent.hosts) = Cardinality(BoundRecords)
        /\ \A i \in BoundRecords :
             Cardinality(HostEntries(invent, Head(served[i].record.dnsHosts),
                                     served[i].record.address)) = 1

\* the names of the ranges that are listed as a child of a range of the
\* Ranges listing and that the `ranges` option selects
SelectedChildNames ==
    UNION {{listing[i].childRanges[j].name :
               j \in {b \in 1..Len(listing[i].childRanges) :
                         ranges = <<>> \/ InSeq(listing[i].childRanges[b].name, ranges)}} :
           i \in 1..Len(listing)}

\* C13: address records are requested for a range if and only if the range
\* is listed as a child of a range of the Ranges listing and the `ranges`
\* option is empty or names it.
C13_QueriedIffSelectedChild ==
    /\ \A i \in 1..Len(queried) : queried[i] \in SelectedChildNames
    /\ ipc = "returned" => \A n \in SelectedChildNames : InSeq(n, queried)

C13_Witness ==
    /\ ipc = "returned"
    /\ ranges = <<S_Root, S_LAN2>>
    /\ Len(listing) = 3
    /\ queried = <<S_LAN2>>

\* the records of a list that have a DNS host binding
RECURSIVE BoundOnly(_)
BoundOnly(recs) ==
    IF recs = <<>> THEN <<>>
    ELSE (IF Head(recs).dnsHosts # <<>> THEN <<Head(recs)>> ELSE <<>>)
         \o BoundOnly(Tail(recs))

\* the inventory the first n scans build when the server leaves out the
\* records without DNS host binding
RECURSIVE RebuildWithoutUnbound(_)
RebuildWithoutUnbound(n) ==
    IF n = 0 THEN EmptyInventory
    ELSE ProcessRecords(RebuildWithoutUnbound(n - 1),
                        BoundOnly(RecordsOfScan(served, n)), children[n], filters)

\* C14: a record whose DNS host binding list is empty contributes nothing:
\* its address is not in 'hosts' and the groups are the ones the other
\* records give, whatever its custom properties and the filters.
C14_UnboundRecordContributesNothing ==
    /\ invent = RebuildWithoutUnbound(Len(queried))
    /\ \A i \in 1..Len(served) :
         served[i].record.dnsHosts = <<>> =>
             \A j \in 1..Len(invent.hosts) :
                 invent.hosts[j].address # served[i].record.address

C14_Witness ==
    /\ ipc = "returned"
    /\ filters = <<Filter(S_location, S_london)>>
    /\ \E i \in 1..Len(served) :
         /\ served[i].record.dnsHosts = <<>>
         /\ served[i].record.customProperties = <<Prop(S_Location, S_London)>>

InGroup(inv, g, hostname) == g \in DOMAIN inv.groups /\ InSeq(hostname, inv.groups[g])

\* C15: every record kept (every hostname added to 'all') is also in the
\* group range_<sanitized range name> of its range, in the group
\* micetro_<sanitized property>_<sanitized value> of each of its custom
\* properties, and has its (hostname, address) pair in 'hosts'.
C15_KeptRecordIsInItsGroupsAndHosts ==
    \A i \in BoundRecords :
        LET rec == served[i].record
            hostname == Head(rec.dnsHosts)
        IN InGroup(invent, S_all, hostname) =>
              /\ InGroup(invent, S_range_ \o _sanitize(served[i].range), hostname)
              /\ \A j \in 1..Len(rec.customProperties) :
                   InGroup(invent,
                           S_micetro_ \o _sanitize(rec.customProperties[j].key)
                               \o S_underscore \o _sanitize(rec.customProperties[j].val),
                           hostname)
              /\ HostEntries(invent, hostname, rec.address) # {}

\* C19: when the server rejects a request of get_inventory with an API
\* error (4xx/5xx with an error envelope), the failure that reaches the
\* caller of get_inventory is the error of the gateway, not another error
\* raised by get_inventory itself.
C19_ApiErrorReachesCallerUntranslated ==
    (/\ ipc = "raised"
     /\ lastAnswer.kind = "HTTPError"
     /\ HasErrorEnvelope(lastAnswer.body))
        => (Doapi(lastAnswer).pc = "raised" /\ ierr = Doapi(lastAnswer).exc)

(***************************************************************************)
(* parse and the cache                                                     *)
(***************************************************************************)
\* the latest step was a call of parse that used the cache
ParsedWithCache == lastParse.op = "parse" /\ lastParse.useCache

\* ... and found an entry under the key of its path
CacheHit == ParsedWithCache /\ lastParse.hit

\* ... and found none, and came to its end
CacheMiss == ParsedWithCache /\ ~lastParse.hit /\ lastParse.status = "ok"

\* C16: a call of parse that uses the cache and finds an entry under the key
\* of its path makes no request to the gateway (get_inventory is not called)
\* and fills the inventory object from exactly the cached structure.
C16_CacheHitPublishesCachedInventory ==
    CacheHit =>
        /\ lastParse.status = "ok"
        /\ lastParse.passes = 0
        /\ lastParse.answers = <<>>
        /\ inventory = Populate(EmptyAnsibleInventory, cache[CacheKey(lastParse.path)])

C16_Witness ==
    /\ CacheHit
    /\ Len(cache[CacheKey(lastParse.path)].hosts) > 0
    /\ inventory.hosts # <<>>

\* the inventory computed by a cache miss is the cache entry of the path
\* and is what was published
MissIsStored ==
    CacheMiss =>
        /\ lastParse.passes = 1
        /\ CacheKey(lastParse.path) \in DOMAIN cache
        /\ cache[CacheKey(lastParse.path)] = lastParse.invent
        /\ inventory = Populate(EmptyAnsibleInventory, lastParse.invent)

\* the call of parse that follows a cache miss, with the same path and the
\* cache in use, publishes the same without calling get_inventory
HitAfterMiss ==
    (/\ CacheMiss
     /\ lastParse'.op = "parse"
     /\ lastParse'.useCache
     /\ lastParse'.path = lastParse.path)
        => (/\ lastParse'.hit
            /\ lastParse'.status = "ok"
            /\ lastParse'.passes = 0
            /\ lastParse'.answers = <<>>
            /\ inventory' = inventory)

GatewayFailure(o) == o.kind # "response"

\* C18: when a request of get_inventory fails at the gateway (API error,
\* connection failure, TLS or DNS failure) in a call of parse that is not
\* served from the cache, the call is aborted: nothing is added to the
\* inventory object and nothing is written to the cache.
C18_GatewayFailureAbortsParse ==
    [][(/\ lastParse'.op = "parse"
        /\ \E i \in 1..Len(lastParse'.answers) : GatewayFailure(lastParse'.answers[i]))
           => (/\ lastParse'.status = "raised"
               /\ inventory' = EmptyAnsibleInventory
               /\ cache' = cache)]_vars

\* the request for the records of a range failed, with the cache in use and
\* not empty
C18_Witness ==
    /\ ParsedWithCache
    /\ lastParse.status = "raised"
    /\ Len(lastParse.answers) = 2
    /\ GatewayFailure(lastParse.answers[2])
    /\ cache # EmptyDict

(***************************************************************************)
(* _sanitize                                                               *)
(***************************************************************************)
\* C20: _sanitize is idempotent: applied to its own result it gives that
\* result again.
C20_SanitizeIsIdempotent ==
    spc = "twice" => twice = once

\* a string with an upper-case letter and a replaced character went through
C20_Witness ==
    /\ spc = "twice"
    /\ \E i \in 1..Len(data) : data[i] \in SanitizedChars
    /\ \E i \in 1..Len(data) : Lower(data[i]) # data[i]
    /\ once # data

\* C21: _sanitize lowercases its input and replaces a character with an
\* underscore if and only if it is one of space / \ & * ^ % $ # @ ! + = ` ~
\* : ; < > ? , . " ' ( ) [ ] { }; every other character (letter, digit,
\* underscore, hyphen, pipe) is kept, and the length does not change.
C21_SanitizeReplacesExactlyTheListedCharacters ==
    LET listed == {" ", "/", "\\", "&", "*", "^", "%", "$", "#", "@", "!", "+", "=",
                   "`", "~", ":", ";", "<", ">", "?", ",", ".", "\"", "'", "(", ")",
                   "[", "]", "{", "}"}
    IN spc # "in" =>
          /\ Len(once) = Len(data)
          /\ \A i \in 1..Len(data) :
                once[i] = IF data[i] \in listed THEN "_" ELSE Lower(data[i])

(***************************************************************************)
(* the groups of the inventory                                             *)
(***************************************************************************)
\* "micetro_" + _sanitize(k) + "_" + _sanitize(v)
PropertyGroupName(k, v) == S_micetro_ \o _sanitize(k) \o S_underscore \o _sanitize(v)

\* C22: the group made for a custom property (k, v) of a kept record is
\* named "micetro_" + _sanitize(k) + "_" + _sanitize(v): every group that
\* is neither reserved nor the group of a range has such a name, without
\* filters every property of every DNS-bound record has its group with the
\* host in it, and Location = "New York, NY" gives the group
\* micetro_location_new_york__ny.
C22_PropertyGroupIsNamedFromSanitizedParts ==
    /\ \A g \in (DOMAIN invent.groups) \ {S_all, S_mm_urls} :
          \/ \E i \in 1..Len(served) : g = S_range_ \o _sanitize(served[i].range)
          \/ \E i \in BoundRecords : \E j \in 1..Len(served[i].record.customProperties) :
                g = PropertyGroupName(served[i].record.customProperties[j].key,
                                      served[i].record.customProperties[j].val)
    /\ filters = <<>> =>
          \A i \in BoundRecords : \A j \in 1..Len(served[i].record.customProperties) :
             /\ InGroup(invent,
                        PropertyGroupName(served[i].record.customProperties[j].key,
                                          served[i].record.customProperties[j].val),
                        Head(served[i].record.dnsHosts))
             /\ served[i].record.customProperties[j] = Prop(S_Location, S_NewYorkNY) =>
                   InGroup(invent,
                           <<"m", "i", "c", "e", "t", "r", "o", "_",
                             "l", "o", "c", "a", "t", "i", "o", "n", "_",
                             "n", "e", "w", "_", "y", "o", "r", "k", "_", "_", "n", "y">>,
                           Head(served[i].record.dnsHosts))

C22_Witness ==
    /\ ipc = "returned"
    /\ filters = <<>>
    /\ \E i \in BoundRecords :
         /\ served[i].record.customProperties = <<Prop(S_Location, S_NewYorkNY)>>
         /\ InGroup(invent, PropertyGroupName(S_Location, S_NewYorkNY),
                    Head(served[i].record.dnsHosts))

\* C23: the inventory of get_inventory always has the groups 'all' and
\* 'mm_urls', also without range, without record and when no record passes
\* the filters, and the two hold the same hostnames in the same order; every
\* other group is not empty and is the group of the range or of a custom
\* property of a DNS-bound record that has custom properties.
C23_ReservedGroupsAlwaysThereAndEqual ==
    /\ {S_all, S_mm_urls} \subseteq DOMAIN invent.groups
    /\ invent.groups[S_all] = invent.groups[S_mm_urls]
    /\ \A g \in (DOMAIN invent.groups) \ {S_all, S_mm_urls} :
          /\ invent.groups[g] # <<>>
          /\ \E i \in BoundRecords : \E j \in 1..Len(served[i].record.customProperties) :
                \/ g = S_range_ \o _sanitize(served[i].range)
                \/ g = PropertyGroupName(served[i].record.customProperties[j].key,
                                         served[i].record.customProperties[j].val)

\* a pass over two ranges that kept one record and dropped another
C23_Witness ==
    /\ ipc = "returned"
    /\ filters # <<>>
    /\ Len(queried) = 2
    /\ Len(invent.groups[S_all]) = 1
    /\ Cardinality(BoundRecords) = 2
    /\ Cardinality(DOMAIN invent.groups) = 4

(***************************************************************************)
(* doapi keeps nothing between calls                                       *)
(***************************************************************************)
\* doapi run alone from line 44 on the answers lg of open_url
RECURSIVE RunAlone(_)
RunAlone(lg) ==
    IF lg = <<>> THEN Step(EmptyDict, 0, "loop", "none")
    ELSE LET before == RunAlone(SubSeq(lg, 1, Len(lg) - 1))
         IN LoopBody(before.result, before.tries, Last(lg))

\* what call c holds is what doapi run alone holds after the same answers
AsIfAlone ==
    \A c \in Calls :
        pc[c] # "idle" =>
            /\ pc[c] = RunAlone(log[c]).pc
            /\ result[c] = RunAlone(log[c]).result
            /\ tries[c] = RunAlone(log[c]).tries
            /\ raised[c] = RunAlone(log[c]).exc

\* C24: doapi keeps no state between invocations: whatever the other calls
\* do and whatever the earlier calls did, a call's result and attempt
\* counter are the ones of the same call run alone on the answers to its own
\* requests, and the mm_provider passed in is never changed.
C24_DoapiIsStateless ==
    [](AsIfAlone) /\ [][mm_provider' = mm_provider]_vars

\* one call returned a decoded body while the other one raised
C24_Witness ==
    /\ pc[1] = "returned"
    /\ HasKey(result[1], "message")
    /\ pc[2] = "raised"
    /\ log[1] # log[2]
    /\ mm_provider = Provider

(***************************************************************************)
(* the modules                                                             *)
(***************************************************************************)
\* the group module ran to its exit_json, not in check mode
GroupRunCompleted ==
    lastRun.module = "group" /\ lastRun.status = "exit" /\ ~lastRun.check_mode

\* the groups of that name in a list of groups
GroupsNamed(groups, name) == {i \in 1..Len(groups) : groups[i].name = name}

\* C25: when the group module has run to completion against a server that
\* applies its requests, the group is there or not as requested: with
\* state=absent and a group of that name on the server, a DELETE for the
\* reference of that group was sent and the group is gone; with
\* state=present and a group of that name on the server, a PUT was sent for
\* it, no POST, and there is still one group of that name.
C25_GroupExistenceMatchesRequestedState ==
    (/\ GroupRunCompleted
     /\ GroupsNamed(lastRun.before.groups, lastRun.params["name"]) # {})
        => LET name == lastRun.params["name"]
               old == lastRun.before.groups
               refs == {old[i].ref : i \in GroupsNamed(old, name)}
               sent == lastRun.sent
           IN IF lastRun.params["state"] = "absent"
              THEN /\ \E i \in 1..Len(sent) :
                         /\ sent[i].method = "DELETE"
                         /\ \E r \in refs : InSeq(r, sent[i].url)
                   /\ GroupsNamed(server.groups, name) = {}
              ELSE /\ \E i \in 1..Len(sent) :
                         /\ sent[i].method = "PUT"
                         /\ \E r \in refs : InSeq(r, sent[i].url)
                   /\ \A i \in 1..Len(sent) : sent[i].method # "POST"
                   /\ Cardinality(GroupsNamed(server.groups, name)) = 1

\* C26: run in check mode, the modules claimip, group and ipprops send no
\* request and exit with changed = True.
C26_CheckModeSendsNothingAndReportsChanged ==
    (lastRun.module \in {"claimip", "group", "ipprops"} /\ lastRun.check_mode)
        => /\ lastRun.sent = <<>>
           /\ server = lastRun.before
           /\ lastRun.status = "exit"
           /\ lastRun.result["changed"] = TRUE

(***************************************************************************)
(* what the filters decide                                                 *)
(***************************************************************************)
\* the last filter of the list maps the sanitized property to the
\* sanitized value
LastFilterMatches(prop) ==
    /\ _sanitize(prop.key) \in DOMAIN Last(filters)
    /\ Last(filters)[_sanitize(prop.key)] = _sanitize(prop.val)

\* how often x is in a list
Occurrences(x, seq) == Cardinality({i \in 1..Len(seq) : seq[i] = x})

RECURSIVE ListedChildren(_)
ListedChildren(l) ==
    IF l = <<>> THEN <<>>
    ELSE SelectSeq(Head(l).childRanges,
                   LAMBDA c : ranges = <<>> \/ InSeq(c.name, ranges))
         \o ListedChildren(Tail(l))

\* a list without the entries whose ref came earlier in it
RECURSIVE FirstByRef(_)
FirstByRef(kids) ==
    IF kids = <<>> THEN <<>>
    ELSE LET front == FirstByRef(SubSeq(kids, 1, Len(kids) - 1))
         IN IF \E i \in 1..Len(front) : front[i].ref = Last(kids).ref
            THEN front ELSE Append(front, Last(kids))

\* the place of the record of that hostname among the records handed out
ServedAt(hostname) ==
    CHOOSE i \in 1..Len(served) : served[i].record.dnsHosts = <<hostname>>

\* C28: the ranges get_inventory scans are without duplicate reference and
\* in the order of the Ranges response: a child range listed under several
\* ranges is queried once in a pass, the ranges are queried in the order
\* of their first listing, and the hostnames of every group are in the
\* order the records were returned.
C28_ScanIsDeduplicatedAndInServerOrder ==
    /\ ipc = "returned" =>
          queried = [i \in 1..Len(FirstByRef(ListedChildren(listing))) |->
                        FirstByRef(ListedChildren(listing))[i].name]
    /\ \A i, j \in 1..Len(queried) : queried[i] = queried[j] => i = j
    /\ \A g \in DOMAIN invent.groups :
          \A a, b \in 1..Len(invent.groups[g]) :
             a < b => ServedAt(invent.groups[g][a]) <= ServedAt(invent.groups[g][b])

(***************************************************************************)
(* grouped hosts and their addresses                                       *)
(***************************************************************************)
\* C29: in the inventory of get_inventory every hostname that is in a group
\* ('all' and 'mm_urls' too) is the name of an entry of 'hosts', so that
\* every grouped host has an address, for records with no, one or several
\* custom properties, with and without filters.
C29_GroupedHostHasHostsEntry ==
    \A g \in DOMAIN invent.groups :
        \A i \in 1..Len(invent.groups[g]) :
            \E j \in 1..Len(invent.hosts) : invent.hosts[j].name = invent.groups[g][i]

(***************************************************************************)
(* parse without the cache                                                 *)
(***************************************************************************)
\* C30: when the cache is not in use (the cache option is off or parse is
\* called with cache=False), a call of parse reads no cache entry and
\* writes none: the cache stays as it is and the inventory published is the
\* one get_inventory computed in that call.
C30_WithoutCacheParseLeavesCacheAlone ==
    [][(/\ lastParse'.op = "parse"
        /\ (~lastParse'.cacheOption \/ ~lastParse'.cacheArg))
           => (/\ cache' = cache
               /\ ~lastParse'.hit
               /\ lastParse'.passes = 1
               /\ Len(lastParse'.answers) >= 1
               /\ lastParse'.status = "ok" =>
                     inventory' = Populate(EmptyAnsibleInventory, lastParse'.invent))]_vars

\* a call without the cache, for a path whose cache entry holds another
\* inventory than the one computed
C30_Witness ==
    /\ lastParse.op = "parse"
    /\ ~lastParse.cacheArg
    /\ lastParse.cacheOption
    /\ lastParse.status = "ok"
    /\ CacheKey(lastParse.path) \in DOMAIN cache
    /\ cache[CacheKey(lastParse.path)] # lastParse.invent
    /\ Len(lastParse.invent.hosts) > 0

====
